---- MODULE Spec2Model ----
(***************************************************************************)
(* Windowed haplotype aggregation and reconciliation of the variant        *)
(* caller (main.py): call(), _call_vars_region(), reconcile_current_window *)
(* and the final assembly of the variant list; and the trimming of the     *)
(* training tensors (train.py): trim_pileuptensor().                       *)
(*                                                                         *)
(* Inference, pile-up encoding and the alignment-to-variant translator are *)
(* external: a step's two candidate lists are drawn nondeterministically   *)
(* from the variant identities lying in the step's window.                 *)
(***************************************************************************)
EXTENDS Integers, Sequences, FiniteSets, TLC

VARIABLES
    pc,            \* position of call(): "call", "steps", "done"
    i,             \* index of the window being processed (enumerate(windows))
    window_start,  \* start of the current step of _call_vars_region
    step_count,    \* step index of _call_vars_region
    allvars0,      \* running map of haplotype bucket 0: identity -> occurrences
    allvars1,      \* running map of haplotype bucket 1
    var_windows,   \* list of the per-window variant dicts of call()
    pr_vars,       \* the assembled variant list handed to serialization
    last_step,     \* what the most recent step of _call_vars_region saw and did
    last_rec,      \* what the most recent reconcile_current_window saw and did
    input,         \* the run's input: target intervals, window spacing and
                   \* overlap, and the variants present in the sample
    conv,          \* the step-level swaps of the current region so far
    trim           \* what trim_pileuptensor (train.py) has returned

vars == <<pc, i, window_start, step_count, allvars0, allvars1, var_windows,
          pr_vars, last_step, last_rec, input, conv, trim>>

----------------------------------------------------------------------------
(* Bounds and inputs *)

\* number of windows the target interval is cut into
MaxWindows == 2

\* constants of _call_vars_region and of its call in call()
window_step == 50
var_retain_window_size == 150
window_size == 300
min_reads == 5

Chroms == <<"chr1", "chr2">>

\* the variant identities (pos, ref, alt) of the model, in a fixed order
IdentSeq == << <<40, "T", "G">>, <<90, "A", "C">>, <<150, "G", "T">>,
              <<230, "G", "A">>, <<330, "T", "C">>, <<149, "C", "G">> >>

\* the identities inference can report in the runs with arbitrary calls:
\* one left of the target interval, one inside it
Idents == { IdentSeq[2], IdentSeq[3] }

\* Inputs of call() with arbitrary calls: the merged target intervals (pr_bed:
\* chromosome, start, end), window spacing and right overlap.  haps gives, per
\* identity, the haplotypes carrying it when the calls follow the sample
\* (0, 1, or 2 for both); -1 when the calls are arbitrary.
OverlappingWindows ==
    [bed |-> { <<"chr1", 100, 100 + MaxWindows * 50>> },
     window_spacing |-> 50, window_overlap |-> 10,
     haps |-> [k \in Idents |-> -1]]

\* one window whose first step (start 0) has an identity exactly at
\* start + var_retain_window_size and one a position earlier
BoundaryIdents == { IdentSeq[6], IdentSeq[3] }

RetentionBoundary ==
    [bed |-> { <<"chr1", 100, 160>> },
     window_spacing |-> 1000, window_overlap |-> 0,
     haps |-> [k \in BoundaryIdents |-> -1]]

\* two target intervals of one chromosome closer to each other than the
\* right overlap of the windows
CloseIntervals ==
    [bed |-> { <<"chr1", 100, 150>>, <<"chr1", 155, 200>> },
     window_spacing |-> 50, window_overlap |-> 10,
     haps |-> [k \in { IdentSeq[3] } |-> -1]]

\* one target interval on each of two chromosomes
TwoChromosomes ==
    [bed |-> { <<"chr1", 100, 150>>, <<"chr2", 100, 150>> },
     window_spacing |-> 1000, window_overlap |-> 0,
     haps |-> [k \in { IdentSeq[3] } |-> -1]]

Inputs == { OverlappingWindows, RetentionBoundary, CloseIntervals,
            TwoChromosomes }

\* Inputs whose calls follow a fixed haplotype assignment: one long window
FixedIdents == { IdentSeq[1], IdentSeq[3], IdentSeq[4], IdentSeq[5] }

FixedInputs ==
    { [bed |-> { <<"chr1", 100, 300>> },
       window_spacing |-> 1000, window_overlap |-> 0,
       haps |-> h] :
      h \in UNION { [S -> {0, 1, 2}] : S \in SUBSET FixedIdents } }

\* Inputs of _call_vars_region called on its own (as eval_labeled_bam calls it
\* on the regions of a labels file): start and end are whatever the caller
\* passes, an end left of the start included
RegionStarts == { 100, 200 }
RegionEnds == { 40, 149, 150, 160 }

RegionInputs ==
    { [region |-> <<"chr1", s, e>>, haps |-> [k \in Idents |-> -1]] :
        s \in RegionStarts, e \in RegionEnds }

\* longest sequence dimension, and largest width, of the tensors given to
\* trim_pileuptensor
MaxLen == 4

\* Inputs of trim_pileuptensor: src of shape [sequence, ...] and tgt of shape
\* [..., sequence], each written as the sequence of its slices along the
\* sequence dimension (slice n is the number n; a slice of zeros is 0)
TrimInputs ==
    { [src |-> [n \in 1..ls |-> n], tgt |-> [n \in 1..lt |-> n], width |-> w] :
        ls \in 0..MaxLen, lt \in 0..MaxLen, w \in 0..MaxLen }

ChromRank(c) == CHOOSE n \in 1..Len(Chroms) : Chroms[n] = c

----------------------------------------------------------------------------
(* Generic helpers *)

Min(a, b) == IF a <= b THEN a ELSE b

Max(a, b) == IF a >= b THEN a ELSE b

\* the keys of a dict, in insertion order (modelled as the order of IdentSeq)
RECURSIVE KeysInOrder(_, _)
KeysInOrder(S, n) ==
    IF n > Len(IdentSeq) THEN << >>
    ELSE (IF IdentSeq[n] \in S THEN << IdentSeq[n] >> ELSE << >>)
         \o KeysInOrder(S, n + 1)

\* all orders in which a for loop may iterate over the set S
Orders(S) ==
    { o \in [1..Cardinality(S) -> S] :
        \A a, b \in 1..Cardinality(S) : a # b => o[a] # o[b] }

\* sum(len(m[v]) for v in S if v in m)
RECURSIVE SumLen(_, _)
SumLen(m, S) ==
    IF S = {} THEN 0
    ELSE LET v == CHOOSE x \in S : TRUE
         IN (IF v \in DOMAIN m THEN Len(m[v]) ELSE 0) + SumLen(m, S \ {v})

----------------------------------------------------------------------------
(* Window scheduler: bed_to_windows *)

\* pr_slack.window(window_spacing): tiles of one interval, from its start
RECURSIVE Tiles(_, _)
Tiles(iv, s) ==
    IF s >= iv[3] THEN << >>
    ELSE << <<iv[1], s, Min(s + input.window_spacing, iv[3])>> >>
         \o Tiles(iv, s + input.window_spacing)

\* the rows of a PyRanges: by chromosome, then by start
RECURSIVE BedRows(_)
BedRows(bed) ==
    IF bed = {} THEN << >>
    ELSE LET iv == CHOOSE x \in bed :
                     \A y \in bed : ChromRank(x[1]) < ChromRank(y[1])
                        \/ (x[1] = y[1] /\ x[2] <= y[2])
         IN << iv >> \o BedRows(bed \ {iv})

\* pr_slack.window(window_spacing).df: the tiles of all rows
RECURSIVE AllTiles(_)
AllTiles(rows) ==
    IF rows = << >> THEN << >>
    ELSE Tiles(Head(rows), Head(rows)[2]) \o AllTiles(Tail(rows))

\* df_windows["End"] = df_windows["End"] + window_overlap
ExtendEnd(w) == <<w[1], w[2], w[3] + input.window_overlap>>

\* PyRanges.intersect of one extended tile: one row for every interval of the
\* bed it overlaps, cut to the overlap
RECURSIVE IntersectTile(_, _)
IntersectTile(w, rows) ==
    IF rows = << >> THEN << >>
    ELSE LET iv == Head(rows)
         IN (IF w[1] = iv[1] /\ w[2] < iv[3] /\ iv[2] < w[3]
             THEN << <<w[1], Max(w[2], iv[2]), Min(w[3], iv[3])>> >>
             ELSE << >>)
            \o IntersectTile(w, Tail(rows))

RECURSIVE IntersectTiles(_, _)
IntersectTiles(tiles, rows) ==
    IF tiles = << >> THEN << >>
    ELSE IntersectTile(ExtendEnd(Head(tiles)), rows)
         \o IntersectTiles(Tail(tiles), rows)

\* bed_slack is 0 in every input: pr_slack is the bed itself
bed_to_windows(bed) == IntersectTiles(AllTiles(BedRows(bed)), BedRows(bed))

\* window_count = len(df_windows)
window_count == Len(bed_to_windows(input.bed))

windows == bed_to_windows(input.bed)

----------------------------------------------------------------------------
(* Step caller and step-level reconciler: _call_vars_region *)

\* the identities a step starting at ws can be offered by the translator:
\* aln_to_vars diffs refseq[offset, offset + window_size) against a haplotype
Visible(ws) == { k \in DOMAIN input.haps : ws <= k[1] /\ k[1] < ws + window_size }

\* the numbers of reads spanning a step: one short of min_reads, or enough
ReadCounts == { min_reads - 1, min_reads }

\* what the collaborators of one step have to offer: the number of spanning
\* reads, and the two candidate lists inference and aln_to_vars would produce
CallOutcomes(ws) ==
    { [reads |-> n, flip |-> FALSE, hap0 |-> a, hap1 |-> b] :
        n \in ReadCounts,
        a \in SUBSET Visible(ws), b \in SUBSET Visible(ws) }

\* callvars: "if len(reads) < min_reads: raise LowReadCountException"
LowReadCount(reads) == reads < min_reads

\* mutant: the low read count is not caught, the step keeps its candidates
called_vars_uncaught(out) == [hap0 |-> out.hap0, hap1 |-> out.hap1]

\* the try/except of a step: vars_hap0, vars_hap1 as called, or both empty
\* when callvars raised LowReadCountException
called_vars(out) ==
    IF LowReadCount(out.reads) THEN [hap0 |-> {}, hap1 |-> {}]
    ELSE [hap0 |-> out.hap0, hap1 |-> out.hap1]

\* the same when the calls follow the sample: the model reports every variant
\* of the window on the haplotypes carrying it, with its two output channels
\* in either order (flip)
OnHap(ws, h) == { k \in Visible(ws) : input.haps[k] \in {h, 2} }

FixedOutcomes(ws) ==
    { [reads |-> min_reads - 1, flip |-> FALSE,
       hap0 |-> OnHap(ws, 0), hap1 |-> OnHap(ws, 1)] }
    \cup { [reads |-> min_reads, flip |-> f,
            hap0 |-> OnHap(ws, IF f THEN 1 ELSE 0),
            hap1 |-> OnHap(ws, IF f THEN 0 ELSE 1)] : f \in BOOLEAN }

\* mutant: the boundary position itself is retained
Retained_inclusive(v, ws) == v[1] <= ws + var_retain_window_size

\* the retention filter of a step
Retained(v, ws) == v[1] < ws + var_retain_window_size

\* stepvars0 / stepvars1: the retained candidates, stamped with the bucket
\* the model reported them in and with the step index
stepvars(cands, ws, hap, step) ==
    [ k \in { v \in cands : Retained(v, ws) } |->
        [hap_model |-> hap, step |-> step] ]

\* mutant: the second term of the same count is forgotten
same_hap_var_count_hap0_only(sv0, sv1, a0, a1) == SumLen(a0, DOMAIN sv0)

same_hap_var_count(sv0, sv1, a0, a1) ==
    SumLen(a0, DOMAIN sv0) + SumLen(a1, DOMAIN sv1)

\* mutant: the second term of the opposite count is forgotten
opposite_hap_var_count_hap0_only(sv0, sv1, a0, a1) == SumLen(a1, DOMAIN sv0)

opposite_hap_var_count(sv0, sv1, a0, a1) ==
    SumLen(a1, DOMAIN sv0) + SumLen(a0, DOMAIN sv1)

\* mutant: a tie swaps too
swap_haplotypes_on_tie(same, opposite) == opposite >= same

\* "if opposite_hap_var_count > same_hap_var_count:  # swap haplotypes"
swap_haplotypes(same, opposite) == opposite > same

\* mutant: the new occurrence replaces the list of an existing key
add_step_vars_replace(allvars, sv) ==
    [ k \in (DOMAIN allvars) \cup (DOMAIN sv) |->
        IF k \in DOMAIN sv THEN << sv[k] >> ELSE allvars[k] ]

\* [allvars[key].append(v) for key, v in stepvars.items()] on a defaultdict(list)
add_step_vars(allvars, sv) ==
    [ k \in (DOMAIN allvars) \cup (DOMAIN sv) |->
        IF k \in DOMAIN sv
        THEN (IF k \in DOMAIN allvars THEN Append(allvars[k], sv[k])
              ELSE << sv[k] >>)
        ELSE allvars[k] ]

NoStep == [ws |-> -1, reads |-> 0, low |-> FALSE, raised |-> FALSE,
           flip |-> FALSE, A |-> {}, B |-> {},
           cand0 |-> {}, cand1 |-> {}, same |-> 0, opposite |-> 0,
           swapped |-> FALSE]

\* no swap yet in this region
NoConv == [swapped |-> FALSE, orient |-> FALSE, consistent |-> TRUE]

\* the record of the region's swaps after a step: the first swap fixes which
\* haplotype bucket 0 holds (orient: the step's channel order as corrected);
\* a later step is consistent when its channels come in that order
NextConv(c, flip, A, B, swap) ==
    IF ~c.swapped
    THEN (IF swap THEN [swapped |-> TRUE, orient |-> ~flip, consistent |-> TRUE]
          ELSE c)
    ELSE [c EXCEPT !.consistent = @ /\ (flip = c.orient \/ A = B)]

NoRec == [done |-> FALSE, prev |-> << >>, pre |-> << >>, mid |-> << >>,
          same |-> 0, opposite |-> 0, swapped |-> FALSE]

\* the (chrom, start, end) _call_vars_region is working on: the window call()
\* has taken from the generator, or the region it was called with directly
region == IF "region" \in DOMAIN input THEN input.region ELSE windows[i + 1]

\* mutant: the step starting exactly at end - window_step is not visited
MoreSteps_strict(w, ws) == ws < w[3] - window_step

\* the while condition of _call_vars_region for window w
MoreSteps(w, ws) == ws <= w[3] - window_step

\* the head of _call_vars_region(chrom, start, end): empty maps, first step
\* two strides upstream of start
EnterRegion(w) ==
    /\ allvars0' = << >>
    /\ allvars1' = << >>
    /\ window_start' = w[2] - 2 * window_step
    /\ step_count' = 0
    /\ last_step' = NoStep
    /\ conv' = NoConv

\* call(): the for loop takes the next window and enters _call_vars_region
CallRegionStart ==
    /\ pc = "call"
    /\ i < Len(windows)
    /\ EnterRegion(windows[i + 1])
    /\ pc' = "steps"
    /\ UNCHANGED <<i, var_windows, pr_vars, last_rec, input, trim>>

\* _call_vars_region called directly on the input's region
RegionCall ==
    /\ pc = "entry"
    /\ EnterRegion(input.region)
    /\ pc' = "steps"
    /\ UNCHANGED <<i, var_windows, pr_vars, last_rec, input, trim>>

\* the while condition is false: "return allvars0, allvars1"
RegionReturn ==
    /\ pc = "steps"
    /\ ~MoreSteps(input.region, window_start)
    /\ pc' = "returned"
    /\ UNCHANGED <<i, window_start, step_count, allvars0, allvars1,
                   var_windows, pr_vars, last_step, last_rec, input, conv, trim>>

\* one iteration of the while loop of _call_vars_region, the collaborators
\* returning out
StepWith(out) ==
    /\ pc = "steps"
    /\ MoreSteps(region, window_start)
    /\   LET called == called_vars(out)
             sv0 == stepvars(called.hap0, window_start, 0, step_count)
             sv1 == stepvars(called.hap1, window_start, 1, step_count)
             same == same_hap_var_count(sv0, sv1, allvars0, allvars1)
             opposite == opposite_hap_var_count(sv0, sv1, allvars0, allvars1)
             swap == swap_haplotypes(same, opposite)
             stepvars0 == IF swap THEN sv1 ELSE sv0
             stepvars1 == IF swap THEN sv0 ELSE sv1
         IN /\ allvars0' = add_step_vars(allvars0, stepvars0)
            /\ allvars1' = add_step_vars(allvars1, stepvars1)
            /\ last_step' = [ws |-> window_start, reads |-> out.reads,
                             low |-> LowReadCount(out.reads),
                             raised |-> FALSE, flip |-> out.flip,
                             A |-> DOMAIN sv0, B |-> DOMAIN sv1,
                             cand0 |-> called.hap0, cand1 |-> called.hap1,
                             same |-> same, opposite |-> opposite,
                             swapped |-> swap]
            /\ conv' = NextConv(conv, out.flip, DOMAIN sv0, DOMAIN sv1, swap)
    /\ window_start' = window_start + window_step
    /\ step_count' = step_count + 1
    /\ UNCHANGED <<pc, i, var_windows, pr_vars, last_rec, input, trim>>

\* a collaborator of the step (callvars, the reference fetch, aln_to_vars)
\* raises something other than LowReadCountException: the except clause of
\* the step does not catch it, and call() has no handler around
\* _call_vars_region, so the exception leaves call()
CallVarsRegionRaises ==
    /\ pc = "steps"
    /\ MoreSteps(region, window_start)
    /\ last_step' = [NoStep EXCEPT !.ws = window_start, !.raised = TRUE]
    /\ pc' = "raised"
    /\ UNCHANGED <<i, window_start, step_count, allvars0, allvars1,
                   var_windows, pr_vars, last_rec, input, conv, trim>>

\* a step with arbitrary calls
CallVarsRegionStep == \E out \in CallOutcomes(window_start) : StepWith(out)

\* a step whose calls follow the sample
CallVarsRegionStepFixed == \E out \in FixedOutcomes(window_start) : StepWith(out)

----------------------------------------------------------------------------
(* Per-window variant dict: vcf.vcf_vars *)

\* One representative per identity of the two bucket maps.  An identity in
\* both buckets is homozygous, genotype (1, 1); an identity in bucket 0 only
\* is heterozygous on haplotype 0, genotype (1, 0); in bucket 1 only,
\* haplotype 1, genotype (0, 1).  Every variant of the window carries the
\* window's phase-set id and is not a duplicate.
vcf_vars(vars_hap0, vars_hap1, chrom, window_idx) ==
    [ k \in (DOMAIN vars_hap0) \cup (DOMAIN vars_hap1) |->
        LET in0 == k \in DOMAIN vars_hap0
            in1 == k \in DOMAIN vars_hap1
        IN [chrom |-> chrom, pos |-> k[1], ref |-> k[2], alt |-> k[3],
            het |-> ~(in0 /\ in1),
            haplotype |-> IF in0 THEN 0 ELSE 1,
            genotype |-> IF in0 /\ in1 THEN <<1, 1>>
                         ELSE IF in0 THEN <<1, 0>> ELSE <<0, 1>>,
            duplicate |-> FALSE,
            phase_set |-> window_idx,
            window_idx |-> window_idx] ]

----------------------------------------------------------------------------
(* Region-level reconciler: reconcile_current_window *)

overlap_vars(prev_win, current_win) == (DOMAIN prev_win) \cap (DOMAIN current_win)

\* the pairs counted at lines 86-91: heterozygous in both windows
HetPairs(prev_win, current_win) ==
    { v \in overlap_vars(prev_win, current_win) :
        prev_win[v].het /\ current_win[v].het }

win_same_hap_var_count(prev_win, current_win) ==
    Cardinality({ v \in HetPairs(prev_win, current_win) :
                    prev_win[v].haplotype = current_win[v].haplotype })

win_opposite_hap_var_count(prev_win, current_win) ==
    Cardinality({ v \in HetPairs(prev_win, current_win) :
                    prev_win[v].haplotype # current_win[v].haplotype })

\* mutant: a tie swaps the current window too
win_swap_haplotypes_on_tie(same, opposite) == opposite >= same

win_swap_haplotypes(same, opposite) == opposite > same

\* tuple(reversed(genotype))
reversed(g) == <<g[2], g[1]>>

\* the body of "if opposite > same": every variant of the current window
swap_current_win(current_win) ==
    [ k \in DOMAIN current_win |->
        [current_win[k] EXCEPT
            !.genotype = reversed(@),
            !.haplotype = IF current_win[k].het /\ @ = 0 THEN 1
                          ELSE IF current_win[k].het /\ @ = 1 THEN 0
                          ELSE @] ]

\* lines 82-98: count, then swap the whole current window or leave it
swap_stage(prev_win, current_win) ==
    IF win_swap_haplotypes(win_same_hap_var_count(prev_win, current_win),
                           win_opposite_hap_var_count(prev_win, current_win))
    THEN swap_current_win(current_win)
    ELSE current_win

\* mutant: the homozygous case is not handled
mark_hom_skip(prev_win, current_win, var) == current_win

\* first if of the loop body: homozygous in both windows
mark_hom(prev_win, current_win, var) ==
    IF ~prev_win[var].het /\ ~current_win[var].het
    THEN [current_win EXCEPT ![var].duplicate = TRUE]
    ELSE current_win

\* mutant: only the overlapping variant takes the previous phase set
mark_het_same_var_only(prev_win, current_win, var) ==
    IF prev_win[var].het /\ current_win[var].het
       /\ prev_win[var].genotype = current_win[var].genotype
    THEN [current_win EXCEPT ![var].duplicate = TRUE,
                             ![var].phase_set = prev_win[var].phase_set]
    ELSE current_win

\* second if: heterozygous in both, same genotype order
mark_het_same(prev_win, current_win, var) ==
    IF prev_win[var].het /\ current_win[var].het
       /\ prev_win[var].genotype = current_win[var].genotype
    THEN [ v \in DOMAIN current_win |->
             [current_win[v] EXCEPT
                !.duplicate = IF v = var THEN TRUE ELSE @,
                !.phase_set = prev_win[var].phase_set] ]
    ELSE current_win

\* mutant: the third case propagates the phase set as well
mark_het_diff_propagate(prev_win, current_win, var) ==
    IF prev_win[var].het /\ current_win[var].het
       /\ prev_win[var].genotype # current_win[var].genotype
    THEN [ v \in DOMAIN current_win |->
             [current_win[v] EXCEPT
                !.duplicate = IF v = var THEN TRUE ELSE @,
                !.phase_set = prev_win[var].phase_set] ]
    ELSE current_win

\* third if: heterozygous in both, different genotype order
mark_het_diff(prev_win, current_win, var) ==
    IF prev_win[var].het /\ current_win[var].het
       /\ prev_win[var].genotype # current_win[var].genotype
    THEN [current_win EXCEPT ![var].duplicate = TRUE]
    ELSE current_win

\* the body of "for var in overlap_vars"
mark_overlap(prev_win, current_win, var) ==
    mark_het_diff(prev_win,
        mark_het_same(prev_win, mark_hom(prev_win, current_win, var), var),
        var)

\* the loop over overlap_vars, in the iteration order `order`
RECURSIVE dup_pass(_, _, _)
dup_pass(prev_win, current_win, order) ==
    IF order = << >> THEN current_win
    ELSE dup_pass(prev_win, mark_overlap(prev_win, current_win, Head(order)),
                  Tail(order))

reconcile_current_window(prev_win, current_win, order) ==
    dup_pass(prev_win, swap_stage(prev_win, current_win), order)

\* mutant: the duplicate flag is set on the previous window's copy too
prev_win_after_marked(prev_win, current_win) ==
    [ k \in DOMAIN prev_win |->
        IF k \in overlap_vars(prev_win, current_win)
        THEN [prev_win[k] EXCEPT !.duplicate = TRUE]
        ELSE prev_win[k] ]

\* prev_win when reconcile_current_window returns: the function only reads
\* prev_win[...]; every assignment is to an entry of current_win, and the two
\* windows of call() are separate dicts of separate variant records
prev_win_after(prev_win, current_win) == prev_win

----------------------------------------------------------------------------
(* call(): end of a window's iteration, and the output assembly *)

\* mutant: the second window is appended without being reconciled
reconcile_from_third(n) == n > 2

\* "if len(var_windows) > 1:  # start on second loop"
reconcile_from_second(n) == n > 1

\* lines 161-170: _call_vars_region has returned; vcf_vars, append, and from
\* the second window on reconcile against the window before
CallRegionFinish ==
    /\ pc = "steps"
    /\ ~MoreSteps(windows[i + 1], window_start)
    /\ LET cur == vcf_vars(allvars0, allvars1, windows[i + 1][1], i)
           n == Len(var_windows) + 1
       IN IF reconcile_from_second(n)
          THEN LET prev == var_windows[n - 1]
               IN \E order \in Orders(overlap_vars(prev, cur)) :
                    /\ var_windows' = Append(
                           [var_windows EXCEPT ![n - 1] = prev_win_after(prev, cur)],
                           reconcile_current_window(prev, cur, order))
                    /\ last_rec' =
                         [done |-> TRUE, prev |-> prev, pre |-> cur,
                          mid |-> swap_stage(prev, cur),
                          same |-> win_same_hap_var_count(prev, cur),
                          opposite |-> win_opposite_hap_var_count(prev, cur),
                          swapped |-> win_swap_haplotypes(
                              win_same_hap_var_count(prev, cur),
                              win_opposite_hap_var_count(prev, cur))]
          ELSE /\ var_windows' = Append(var_windows, cur)
               /\ last_rec' = NoRec
    /\ i' = i + 1
    /\ pc' = "call"
    /\ UNCHANGED <<window_start, step_count, allvars0, allvars1, pr_vars,
                   last_step, input, conv, trim>>

\* lines 181-184: all windows' variants, window by window
RECURSIVE vcfvar_list(_)
vcfvar_list(wins) ==
    IF wins = << >> THEN << >>
    ELSE LET w == Head(wins)
             keys == KeysInOrder(DOMAIN w, 1)
         IN [n \in 1..Len(keys) |-> w[keys[n]]] \o vcfvar_list(Tail(wins))

\* order of PyRanges.sort(): chromosome, then Start = pos - 1 (End = pos)
SortsBefore(a, b) ==
    \/ ChromRank(a.chrom) < ChromRank(b.chrom)
    \/ (a.chrom = b.chrom /\ a.pos - 1 < b.pos - 1)

RECURSIVE InsertSorted(_, _)
InsertSorted(sorted, v) ==
    IF sorted = << >> THEN << v >>
    ELSE IF SortsBefore(v, Head(sorted)) THEN << v >> \o sorted
    ELSE << Head(sorted) >> \o InsertSorted(Tail(sorted), v)

\* mutant: the list is left in window order
sort_window_order(list) == list

RECURSIVE sort(_)
sort(list) ==
    IF list = << >> THEN << >>
    ELSE InsertSorted(sort(SubSeq(list, 1, Len(list) - 1)), list[Len(list)])

\* the interval [pos - 1, pos) of a variant overlaps a target interval
InBed(v, bed) ==
    \E iv \in bed : iv[1] = v.chrom /\ v.pos - 1 < iv[3] /\ iv[2] < v.pos

\* mutant: the intersection also drops the variants flagged duplicate
intersect_drop_duplicates(list, bed) ==
    SelectSeq(list, LAMBDA v : InBed(v, bed) /\ ~v.duplicate)

\* pr_vars.intersect(pr_bed)
intersect(list, bed) == SelectSeq(list, LAMBDA v : InBed(v, bed))

\* lines 180-192: flatten, sort, intersect with the bed.  With no variant at
\* all the DataFrame has no column chrom and call() raises
CallAssemble ==
    /\ pc = "call"
    /\ i = Len(windows)
    /\ IF vcfvar_list(var_windows) = << >>
       THEN pc' = "error" /\ UNCHANGED pr_vars
       ELSE /\ pr_vars' = intersect(sort(vcfvar_list(var_windows)), input.bed)
            /\ pc' = "done"
    /\ UNCHANGED <<i, window_start, step_count, allvars0, allvars1,
                   var_windows, last_step, last_rec, input, conv, trim>>

----------------------------------------------------------------------------
(* Training tensors: trim_pileuptensor (train.py) *)

\* torch.zeros(n, ...): n slices of zeros
zeros(n) == [k \in 1..n |-> 0]

\* t[a:b] along the sequence dimension, 0 <= a
slice(t, a, b) == SubSeq(t, a + 1, Min(b, Len(t)))

\* mutant: the crop starts at the left end
crop_start_left(len, width) == 0

\* "start = src.shape[0] // 2 - width // 2"
crop_start(len, width) == len \div 2 - width \div 2

NoTrim == [status |-> "none", src |-> << >>, tgt |-> << >>]

trim_pileuptensor(src, tgt, width) ==
    IF Len(src) # Len(tgt)
    THEN [status |-> "AssertionError", src |-> << >>, tgt |-> << >>]
    ELSE IF Len(src) < width
    THEN [status |-> "returned",
          src |-> src \o zeros(width - Len(src)),
          tgt |-> tgt \o zeros(width - Len(tgt))]
    ELSE LET start == crop_start(Len(src), width)
         IN [status |-> "returned",
             src |-> slice(src, start, start + width),
             tgt |-> slice(tgt, start, start + width)]

\* make_loader: "src, tgt = trim_pileuptensor(enc, tgt.unsqueeze(0), seq_len)"
\* (seq_len is the input's width)
TrimPileupTensor ==
    /\ pc = "trim"
    /\ trim' = trim_pileuptensor(input.src, input.tgt, input.width)
    /\ pc' = IF trim'.status = "returned" THEN "trimmed" ELSE "AssertionError"
    /\ UNCHANGED <<i, window_start, step_count, allvars0, allvars1,
                   var_windows, pr_vars, last_step, last_rec, input, conv>>

\* make_loader: the two asserts on the trimmed lengths, then the appends
MakeLoaderAppend ==
    /\ pc = "trimmed"
    /\ pc' = IF Len(trim.src) = input.width /\ Len(trim.tgt) = input.width
             THEN "appended" ELSE "AssertionError"
    /\ UNCHANGED <<i, window_start, step_count, allvars0, allvars1,
                   var_windows, pr_vars, last_step, last_rec, input, conv,
                   trim>>

----------------------------------------------------------------------------
(* The specification *)

Start ==
    /\ i = 0
    /\ window_start = 0
    /\ step_count = 0
    /\ allvars0 = << >>
    /\ allvars1 = << >>
    /\ var_windows = << >>
    /\ pr_vars = << >>
    /\ last_step = NoStep
    /\ last_rec = NoRec
    /\ conv = NoConv
    /\ trim = NoTrim

Init == Start /\ pc = "call" /\ input \in Inputs

InitFixed == Start /\ pc = "call" /\ input \in FixedInputs

InitRegion == Start /\ pc = "entry" /\ input \in RegionInputs

Next ==
    \/ CallRegionStart
    \/ CallVarsRegionStep
    \/ CallVarsRegionRaises
    \/ CallRegionFinish
    \/ CallAssemble

Spec == Init /\ [][Next]_vars

NextFixed ==
    \/ CallRegionStart
    \/ CallVarsRegionStepFixed
    \/ CallRegionFinish
    \/ CallAssemble

\* the runs in which the calls of every step follow the sample's haplotypes
SpecFixed == InitFixed /\ [][NextFixed]_vars

NextRegion ==
    \/ RegionCall
    \/ CallVarsRegionStep
    \/ RegionReturn

\* one call of _call_vars_region on an arbitrary region; the loop keeps
\* running until its condition is false
SpecRegion == InitRegion /\ [][NextRegion]_vars /\ WF_vars(NextRegion)

InitTrim == Start /\ pc = "trim" /\ input \in TrimInputs

NextTrim ==
    \/ TrimPileupTensor
    \/ MakeLoaderAppend

\* one pass of make_loader's loop body over one encoded tensor and target
SpecTrim == InitTrim /\ [][NextTrim]_vars

----------------------------------------------------------------------------
(* Properties of the region-level reconciler and of the assembled list *)

\* the window reconcile_current_window returned last, and its inputs
RecPrev == last_rec.prev
RecCur == var_windows[Len(var_windows)]
RecOverlap == (DOMAIN last_rec.prev) \cap (DOMAIN last_rec.pre)

Ident(v) == <<v.pos, v.ref, v.alt>>

\* the non-duplicate entries of the assembled list with identity k
NonDuplicates(k) ==
    { n \in 1..Len(pr_vars) : Ident(pr_vars[n]) = k /\ ~pr_vars[n].duplicate }

InTarget(k) == \E iv \in input.bed : iv[2] < k[1] /\ k[1] - 1 < iv[3]

\* overlapping identities heterozygous in both windows whose genotype order,
\* when the per-variant pass tests it, is equal / different
HetSame == { v \in RecOverlap :
               RecPrev[v].het /\ RecCur[v].het
               /\ RecPrev[v].genotype = RecCur[v].genotype }

HetDiff == { v \in RecOverlap :
               RecPrev[v].het /\ RecCur[v].het
               /\ RecPrev[v].genotype # RecCur[v].genotype }

HomBoth == { v \in RecOverlap : ~RecPrev[v].het /\ ~RecCur[v].het }

\* C1: once call() has assembled its list, every identity inside the target
\* intervals has at most one entry that is not flagged duplicate.
C1_OneNonDuplicate ==
    pc = "done" =>
        \A k \in DOMAIN input.haps :
            InTarget(k) => Cardinality(NonDuplicates(k)) <= 1

\* C2: an identity heterozygous in both of two adjacent windows with the same
\* genotype order is flagged duplicate in the later window, and every variant
\* of the later window carries the earlier window's phase set; with two
\* windows the assembled list holds exactly one non-duplicate entry of it,
\* in the first window's phase set.
C2_HetSameOrderInherits ==
    \A n \in 2..Len(var_windows) :
        LET prev == var_windows[n - 1]
            cur == var_windows[n]
        IN \A v \in (DOMAIN prev) \cap (DOMAIN cur) :
             (prev[v].het /\ cur[v].het /\ prev[v].genotype = cur[v].genotype)
             => /\ cur[v].duplicate
                /\ \A u \in DOMAIN cur : cur[u].phase_set = prev[v].phase_set
                /\ (pc = "done" /\ Len(var_windows) = 2 /\ InTarget(v))
                   => /\ Cardinality(NonDuplicates(v)) = 1
                      /\ \A m \in NonDuplicates(v) :
                           pr_vars[m].phase_set = 0 /\ pr_vars[m].window_idx = 0

\* C2 witness: two windows share an identity heterozygous in both with the
\* same genotype order, the later window has a further variant of its own,
\* and the list is assembled.
C2_Witness ==
    /\ pc = "done"
    /\ Len(var_windows) = 2
    /\ \E v \in HetSame : InTarget(v)
    /\ \E u \in DOMAIN RecCur : u \notin DOMAIN RecPrev

C4_OverlapAllDuplicate ==
    last_rec.done => \A v \in RecOverlap : RecCur[v].duplicate

IsSwapOf(before, after) ==
    \A k \in DOMAIN before :
        /\ after[k].genotype = <<before[k].genotype[2], before[k].genotype[1]>>
        /\ after[k].haplotype = IF before[k].het THEN 1 - before[k].haplotype
                                ELSE before[k].haplotype

SameGenotypeAndHaplotype(before, after) ==
    \A k \in DOMAIN before :
        /\ after[k].genotype = before[k].genotype
        /\ after[k].haplotype = before[k].haplotype

\* what a swap stage deciding on the counts same and opposite leaves behind:
\* the swap exactly when opposite > same, no duplicate flag or phase set
\* written yet, and the later pass keeping genotypes and haplotypes
SwapStageOn(same, opposite) ==
    /\ DOMAIN last_rec.mid = DOMAIN last_rec.pre
    /\ opposite > same => IsSwapOf(last_rec.pre, last_rec.mid)
    /\ opposite <= same => SameGenotypeAndHaplotype(last_rec.pre, last_rec.mid)
    /\ \A k \in DOMAIN last_rec.pre :
         /\ last_rec.mid[k].duplicate = last_rec.pre[k].duplicate
         /\ last_rec.mid[k].phase_set = last_rec.pre[k].phase_set
    /\ SameGenotypeAndHaplotype(last_rec.mid, RecCur)

\* C6 as stated: same and opposite count all identities present in both
\* windows by their haplotype fields, and the current window is swapped
\* exactly when opposite > same.
C6_SwapOnAllPairs ==
    last_rec.done =>
        SwapStageOn(
            Cardinality({ v \in RecOverlap :
                RecPrev[v].haplotype = last_rec.pre[v].haplotype }),
            Cardinality({ v \in RecOverlap :
                RecPrev[v].haplotype # last_rec.pre[v].haplotype }))

\* C6 amended: same and opposite count the identities present in both windows
\* and heterozygous in both, by their haplotype fields; exactly when
\* opposite > same every genotype of the current window is reversed and the
\* haplotype of every heterozygous variant flipped, before any duplicate flag
\* or phase set is written; otherwise the stage changes nothing.
C6_SwapOnHetPairs ==
    last_rec.done =>
        SwapStageOn(
            Cardinality({ v \in RecOverlap :
                /\ RecPrev[v].het /\ last_rec.pre[v].het
                /\ RecPrev[v].haplotype = last_rec.pre[v].haplotype }),
            Cardinality({ v \in RecOverlap :
                /\ RecPrev[v].het /\ last_rec.pre[v].het
                /\ RecPrev[v].haplotype # last_rec.pre[v].haplotype }))

\* C6 witness: a reconciliation swapped a current window that holds a
\* heterozygous and a homozygous variant.
C6_Witness ==
    /\ last_rec.done
    /\ last_rec.swapped
    /\ \E k \in DOMAIN last_rec.pre : last_rec.pre[k].het
    /\ \E k \in DOMAIN last_rec.pre : ~last_rec.pre[k].het

----------------------------------------------------------------------------
(* Properties of the step-level reconciler and of the region aggregator *)

\* a step of _call_vars_region is taken
StepTaken == pc = "steps" /\ step_count' = step_count + 1

Occ(m, k) == IF k \in DOMAIN m THEN Len(m[k]) ELSE 0

\* map after holds the occurrences of map before plus one for each key of S
Gained(before, after, S) ==
    /\ DOMAIN after = (DOMAIN before) \cup S
    /\ \A k \in DOMAIN after :
         Len(after[k]) = Occ(before, k) + (IF k \in S THEN 1 ELSE 0)

\* C7: with A and B the retained candidates of a step, same is the number of
\* occurrences of A's keys in bucket 0 plus B's in bucket 1, opposite that of
\* A's keys in bucket 1 plus B's in bucket 0; the step merges B into bucket 0
\* and A into bucket 1 exactly when opposite > same, else A into bucket 0 and
\* B into bucket 1.
C7_StepSwapIffOppositeExceeds ==
    [][ StepTaken =>
          LET A == last_step'.A
              B == last_step'.B
              same == SumLen(allvars0, A) + SumLen(allvars1, B)
              opposite == SumLen(allvars1, A) + SumLen(allvars0, B)
          IN /\ last_step'.same = same
             /\ last_step'.opposite = opposite
             /\ opposite > same =>
                  Gained(allvars0, allvars0', B) /\ Gained(allvars1, allvars1', A)
             /\ opposite <= same =>
                  Gained(allvars0, allvars0', A) /\ Gained(allvars1, allvars1', B)
      ]_vars

\* C7 witness: a step swapped two different candidate sets.
C7_Witness == last_step.swapped /\ last_step.A # last_step.B

\* C8: in a region whose calls follow the sample, once a step has swapped, a
\* later step whose channels come in the corrected order does not swap, as
\* long as every step since the swap did.
C8_NoSecondSwap ==
    [][ (StepTaken /\ conv.swapped /\ conv.consistent
         /\ last_step'.flip = conv.orient)
        => ~last_step'.swapped ]_vars

\* C8 witness: after a swap, a later step in the corrected order found its
\* candidates in the running maps.
C8_Witness ==
    /\ conv.swapped
    /\ conv.consistent
    /\ ~last_step.swapped
    /\ last_step.flip = conv.orient
    /\ last_step.same > 0
    /\ last_step.A # last_step.B

\* C9: every occurrence in the bucket-0 map has haplotype-bucket field 0 and
\* every occurrence in the bucket-1 map has haplotype-bucket field 1.
C9_StampMatchesBucket ==
    /\ \A k \in DOMAIN allvars0 : \A n \in 1..Len(allvars0[k]) :
         allvars0[k][n].hap_model = 0
    /\ \A k \in DOMAIN allvars1 : \A n \in 1..Len(allvars1[k]) :
         allvars1[k][n].hap_model = 1

\* list after is list before, or list before with one occurrence of the
\* current step appended
Extends(before, after, step) ==
    \/ after = before
    \/ /\ Len(after) = Len(before) + 1
       /\ SubSeq(after, 1, Len(before)) = before
       /\ after[Len(after)].step = step

\* C10: a step keeps every earlier occurrence of both maps in place and
\* appends one occurrence per bucket the identity is retained in, so the
\* occurrences of an identity grow by the number of buckets of the step that
\* retain it; the end of the region leaves the maps as they are.
C10_AppendOnly ==
    [][ /\ StepTaken =>
            \A k \in DOMAIN input.haps :
               /\ k \in DOMAIN allvars0 =>
                    k \in DOMAIN allvars0'
                    /\ Extends(allvars0[k], allvars0'[k], step_count)
               /\ k \in DOMAIN allvars1 =>
                    k \in DOMAIN allvars1'
                    /\ Extends(allvars1[k], allvars1'[k], step_count)
               /\ Occ(allvars0', k) + Occ(allvars1', k)
                    = Occ(allvars0, k) + Occ(allvars1, k)
                      + (IF k \in last_step'.A THEN 1 ELSE 0)
                      + (IF k \in last_step'.B THEN 1 ELSE 0)
               /\ (k \in DOMAIN allvars0' /\ k \notin DOMAIN allvars0)
                    => Len(allvars0'[k]) = 1
               /\ (k \in DOMAIN allvars1' /\ k \notin DOMAIN allvars1)
                    => Len(allvars1'[k]) = 1
        /\ (pc = "steps" /\ pc' = "call") =>
            allvars0' = allvars0 /\ allvars1' = allvars1
      ]_vars

\* C10 witness: an identity retained in three steps has three occurrences in
\* one bucket.
C10_Witness ==
    \E k \in DOMAIN allvars0 :
        /\ Len(allvars0[k]) = 3
        /\ \A n \in 1..3 : allvars0[k][n].step = n - 1

\* C11: a candidate of a step is retained exactly when its position is below
\* the step's start + var_retain_window_size (150): the step's two retained
\* sets are the candidates below that position, and the running maps gain an
\* occurrence of an identity exactly when a retained set holds it.
C11_RetentionBoundary ==
    [][ StepTaken =>
          LET ws == last_step'.ws
              keep(c) == { v \in c : v[1] < ws + 150 }
          IN /\ ws = window_start
             /\ last_step'.A = keep(last_step'.cand0)
             /\ last_step'.B = keep(last_step'.cand1)
             /\ \A k \in DOMAIN input.haps :
                  (Occ(allvars0', k) + Occ(allvars1', k)
                     > Occ(allvars0, k) + Occ(allvars1, k))
                  <=> k \in keep(last_step'.cand0) \cup keep(last_step'.cand1)
      ]_vars

\* C11 witness: a step reported an identity exactly at its start + 150 and
\* one a position earlier; only the earlier one is in the maps.
C11_Witness ==
    /\ step_count = 1
    /\ \E a \in last_step.cand0, b \in last_step.cand0 :
         /\ a[1] = last_step.ws + 150
         /\ b[1] = last_step.ws + 149
         /\ a \notin (DOMAIN allvars0) \cup (DOMAIN allvars1)
         /\ b \in (DOMAIN allvars0) \cup (DOMAIN allvars1)

\* C12: a step with fewer than min_reads (5) spanning reads has two empty
\* candidate lists, leaves both running maps as they are, and the loop goes on
\* to the next step: nothing is raised out of _call_vars_region.  A step with
\* min_reads reads or more is not treated as low.
C12_LowReadCountSoftFail ==
    [][ StepTaken =>
          /\ last_step'.low <=> last_step'.reads < 5
          /\ last_step'.low =>
               /\ last_step'.cand0 = {} /\ last_step'.cand1 = {}
               /\ last_step'.A = {} /\ last_step'.B = {}
               /\ allvars0' = allvars0 /\ allvars1' = allvars1
               /\ window_start' = window_start + 50
               /\ step_count' = step_count + 1
               /\ pc' = "steps"
               /\ ~last_step'.raised
      ]_vars

\* C12 witness: a step with too few reads came after steps that filled the
\* maps.
C12_Witness ==
    /\ last_step.low
    /\ last_step.reads = 4
    /\ step_count >= 2
    /\ DOMAIN allvars0 # {}
    /\ DOMAIN allvars1 # {}

\* the number of step starts start - 2*50, start - 50, ... that are
\* <= end - 50
StepsOf(w) ==
    IF w[3] - 50 < w[2] - 2 * 50 THEN 0
    ELSE ((w[3] - 50) - (w[2] - 2 * 50)) \div 50 + 1

\* every occurrence a step has added to a map carries the step index n
StampedWith(before, after, n) ==
    \A k \in DOMAIN after :
      Occ(after, k) > Occ(before, k) => after[k][Len(after[k])].step = n

\* while the loop runs, the next step start is start - 2*50 + 50 * (steps
\* visited), and no more steps were visited than the region has
LoopPosition ==
    pc \in {"steps", "returned"} =>
      /\ window_start = input.region[2] - 2 * 50 + 50 * step_count
      /\ step_count <= StepsOf(input.region)
      /\ step_count > 0 =>
           /\ last_step.ws = window_start - 50
           /\ last_step.ws <= input.region[3] - 50

\* the loop returns after exactly the region's steps; with no step both maps
\* are empty
LoopExit ==
    pc = "returned" =>
      /\ step_count = StepsOf(input.region)
      /\ window_start > input.region[3] - 50
      /\ input.region[3] - 50 < input.region[2] - 2 * 50 =>
           step_count = 0 /\ allvars0 = << >> /\ allvars1 = << >>

\* a step is the one starting at start - 2*50 + 50 * (steps visited before
\* it), and stamps that number of steps on what it adds
StepStamp ==
    [][ StepTaken =>
          /\ last_step'.ws = input.region[2] - 2 * 50 + 50 * step_count
          /\ window_start' = window_start + 50
          /\ StampedWith(allvars0, allvars0', step_count)
          /\ StampedWith(allvars1, allvars1', step_count)
      ]_vars

\* C13: for every region (start, end) the step loop of _call_vars_region ends;
\* it visits the step starts start - 2*50, start - 50, ... in increasing order,
\* 50 apart, each while it is <= end - 50; a step stamps on its candidates the
\* number of steps visited before it; a region with end - 50 < start - 2*50 has
\* no step and returns two empty maps.
C13_StepLoop ==
    /\ []LoopPosition
    /\ []LoopExit
    /\ StepStamp
    /\ <>(pc = "returned")

\* C13 witness: a region (100, 150) has returned after its three steps, the
\* last one starting exactly at end - 50, with stamped occurrences in a map.
C13_Witness ==
    /\ pc = "returned"
    /\ step_count = 3
    /\ last_step.ws = input.region[3] - 50
    /\ \E k \in DOMAIN allvars0 : Len(allvars0[k]) = 2

\* C14: when the calling of a region fails with a collaborator error other
\* than insufficient depth, call() goes on with the next window: the failed
\* region adds no entry to var_windows (so it contributes no variant and is
\* not the window the next one is reconciled against) and the run is not
\* ended by the error.
C14_FailedRegionSkipped ==
    [][ (pc = "steps" /\ last_step'.raised) =>
          /\ pc' = "call"
          /\ i' = i + 1
          /\ var_windows' = var_windows
      ]_vars

\* the regions of one target interval [s, e): starts s, s + window_spacing,
\* ... below e, each ending at min(start + window_spacing + window_overlap, e)
RECURSIVE IntervalRegions(_, _)
IntervalRegions(iv, start) ==
    IF start >= iv[3] THEN << >>
    ELSE << <<iv[1], start,
              Min(start + input.window_spacing + input.window_overlap, iv[3])>> >>
         \o IntervalRegions(iv, start + input.window_spacing)

RECURSIVE ExpectedWindows(_)
ExpectedWindows(rows) ==
    IF rows = << >> THEN << >>
    ELSE IntervalRegions(Head(rows), Head(rows)[2])
         \o ExpectedWindows(Tail(rows))

\* C19: bed_to_windows yields, for every target interval [s, e) and in
\* increasing start order, exactly the regions starting at s + k*window_spacing
\* (while below e) and ending at min(start + window_spacing + window_overlap,
\* e); the window count it returns is the number of regions yielded.
C19_WindowsPerInterval ==
    /\ windows = ExpectedWindows(BedRows(input.bed))
    /\ window_count = Len(windows)

\* call() has the result of _call_vars_region for window i
RegionFinished == pc = "steps" /\ pc' = "call"

\* C15: call() reconciles the windows in the order the scheduler yields them.
\* Window i >= 1 goes through the reconciler once, when it is appended, against
\* window i-1 as stored (that is, as reconciled), and before window i+1 is
\* called; window 0 is appended as called; no stored window is touched again.
C15_ReconciledInOrder ==
    [][ /\ RegionFinished =>
             /\ Len(var_windows) = i
             /\ i' = i + 1
             /\ Len(var_windows') = i + 1
             /\ \A n \in 1..i : var_windows'[n] = var_windows[n]
             /\ LET cur == vcf_vars(allvars0, allvars1, windows[i + 1][1], i)
                IN IF i = 0
                   THEN ~last_rec'.done /\ var_windows'[1] = cur
                   ELSE /\ last_rec'.done
                        /\ last_rec'.prev = var_windows[i]
                        /\ last_rec'.pre = cur
                        /\ \E order \in Orders(overlap_vars(var_windows[i], cur)) :
                             var_windows'[i + 1] =
                               reconcile_current_window(var_windows[i], cur, order)
        /\ ~RegionFinished =>
             var_windows' = var_windows /\ last_rec' = last_rec
        /\ pc' = "steps" => Len(var_windows') = i'
      ]_vars

\* C15 witness: the third window has been reconciled against the second,
\* which its own reconciliation against the first had changed.
C15_Witness ==
    /\ Len(var_windows) = 3
    /\ last_rec.done
    /\ last_rec.prev = var_windows[2]
    /\ \E k \in DOMAIN var_windows[2] : var_windows[2][k].duplicate
    /\ \E k \in DOMAIN var_windows[3] : var_windows[3][k].duplicate

\* C16: the assembled list handed to serialization holds no variant flagged
\* duplicate by the region-level reconciler.
C16_DuplicatesExcluded ==
    pc = "done" => \A n \in 1..Len(pr_vars) : ~pr_vars[n].duplicate

\* position p (interval [p - 1, p)) lies in a target interval of its chromosome
InSomeTarget(v) ==
    \E iv \in input.bed : iv[1] = v.chrom /\ iv[2] <= v.pos - 1 /\ v.pos - 1 < iv[3]

\* a comes no later than b in (chromosome, position)
NotAfter(a, b) ==
    \/ ChromRank(a.chrom) < ChromRank(b.chrom)
    \/ (a.chrom = b.chrom /\ a.pos <= b.pos)

\* C17: the list call() hands to serialization is non-decreasing in
\* (chromosome, position), whatever the windows' order of variants, swaps and
\* duplicate marks, and holds no variant outside all target intervals.
C17_SortedInsideTargets ==
    pc = "done" =>
      /\ \A n \in 1..(Len(pr_vars) - 1) : NotAfter(pr_vars[n], pr_vars[n + 1])
      /\ \A n \in 1..Len(pr_vars) : InSomeTarget(pr_vars[n])

\* C17 witness: the assembled list of a run whose windows were out of position
\* order, had a swapped and duplicate-marked window, and lost a variant lying
\* outside the target.
C17_Witness ==
    /\ pc = "done"
    /\ Len(pr_vars) >= 2
    /\ last_rec.swapped
    /\ \E n \in 1..Len(pr_vars) : pr_vars[n].duplicate
    /\ LET list == vcfvar_list(var_windows)
       IN /\ \E n \in 1..(Len(list) - 1) : ~NotAfter(list[n], list[n + 1])
          /\ \E n \in 1..Len(list) : ~InSomeTarget(list[n])

\* the fields no reconciler writes
SameVariant(a, b) ==
    /\ a.chrom = b.chrom /\ a.pos = b.pos /\ a.ref = b.ref /\ a.alt = b.alt
    /\ a.het = b.het /\ a.window_idx = b.window_idx

\* the number of entries of the sequence equal to v
CountOf(seq, v) == Cardinality({ n \in 1..Len(seq) : seq[n] = v })

\* the region-level reconciler returns the identities it was given
ReconcilerKeepsIdentities ==
    last_rec.done =>
      /\ DOMAIN RecCur = DOMAIN last_rec.pre
      /\ \A k \in DOMAIN RecCur :
           /\ Ident(RecCur[k]) = k
           /\ SameVariant(RecCur[k], last_rec.pre[k])

\* the assembled list is the windows' variants inside the targets, each as
\* often as the windows hold it
OnlyIntersectionDrops ==
    pc = "done" =>
      LET list == vcfvar_list(var_windows)
      IN /\ \A n \in 1..Len(list) :
              CountOf(pr_vars, list[n]) =
                (IF InSomeTarget(list[n]) THEN CountOf(list, list[n]) ELSE 0)
         /\ \A n \in 1..Len(pr_vars) : CountOf(list, pr_vars[n]) > 0
         /\ \A w \in 1..Len(var_windows) : \A k \in DOMAIN var_windows[w] :
              CountOf(list, var_windows[w][k]) > 0

\* the step-level reconciler puts every retained candidate of the step into a
\* map and takes no identity out
StepKeepsIdentities ==
    [][ StepTaken =>
          (DOMAIN allvars0') \cup (DOMAIN allvars1') =
            (DOMAIN allvars0) \cup (DOMAIN allvars1)
              \cup last_step'.A \cup last_step'.B
      ]_vars

C20_TrimToWidth ==
    pc \in {"trimmed", "appended", "AssertionError"} =>
      LET L == Len(input.src)
          W == input.width
          a == L \div 2 - W \div 2
      IN IF Len(input.src) # Len(input.tgt)
         THEN trim.status = "AssertionError" /\ pc = "AssertionError"
         ELSE /\ trim.status = "returned"
              /\ pc # "AssertionError"
              /\ Len(trim.src) = W
              /\ Len(trim.tgt) = W
              /\ L < W =>
                   \A n \in 1..W :
                     /\ trim.src[n] = (IF n <= L THEN input.src[n] ELSE 0)
                     /\ trim.tgt[n] = (IF n <= L THEN input.tgt[n] ELSE 0)
              /\ L >= W =>
                   /\ 0 <= a
                   /\ a + W <= L
                   /\ \A n \in 1..W :
                        /\ trim.src[n] = input.src[a + n]
                        /\ trim.tgt[n] = input.tgt[a + n]

\* C20 witness: a tensor longer than the width was cropped in the middle, with
\* slices cut off on both sides, and passed make_loader's asserts.
C20_Witness ==
    /\ pc = "appended"
    /\ input.width >= 1
    /\ Len(input.src) >= input.width + 2
    /\ trim.src[1] # input.src[1]
    /\ trim.src[Len(trim.src)] # input.src[Len(input.src)]

C22_HomNeutralInSwap ==
    [][ StepTaken =>
          LET A == last_step'.A
              B == last_step'.B
              common == A \cap B
              same_het == SumLen(allvars0, A \ common) + SumLen(allvars1, B \ common)
              opposite_het == SumLen(allvars1, A \ common) + SumLen(allvars0, B \ common)
          IN /\ last_step'.same - same_het = last_step'.opposite - opposite_het
             /\ last_step'.same - same_het
                  = SumLen(allvars0, common) + SumLen(allvars1, common)
             /\ (last_step'.opposite > last_step'.same) <=> (opposite_het > same_het)
             /\ last_step'.swapped <=> (opposite_het > same_het)
      ]_vars

\* C22 witness: a step that swapped, with an identity in both buckets that the
\* maps already held, so that it added to both counts.
C22_Witness ==
    /\ last_step.swapped
    /\ last_step.A \cap last_step.B # {}
    /\ last_step.A # last_step.B
    /\ last_step.same > 0
    /\ \E k \in last_step.A \cap last_step.B :
         Occ(allvars0, k) + Occ(allvars1, k) > 2

\* the target interval a window was cut from
TargetOf(w) ==
    CHOOSE iv \in input.bed : iv[1] = w[1] /\ iv[2] <= w[2] /\ w[3] <= iv[3]

\* C23: a variant of window i is flagged duplicate, or gets another phase set
\* or genotype, only on the evidence of a window i-1 of the same chromosome
\* and target interval: when window i-1 lies on another chromosome (or in
\* another target interval), window i is stored as called, every variant
\* unflagged and in the window's own phase set, also when the two windows
\* carry a variant with equal (pos, ref, alt).
C23_SameChromosomeEvidence ==
    [][ ( /\ RegionFinished
          /\ i >= 1
          /\ \/ windows[i][1] # windows[i + 1][1]
             \/ TargetOf(windows[i]) # TargetOf(windows[i + 1]) ) =>
          LET called == vcf_vars(allvars0, allvars1, windows[i + 1][1], i)
              stored == var_windows'[i + 1]
          IN /\ DOMAIN stored = DOMAIN called
             /\ \A k \in DOMAIN stored :
                  /\ ~stored[k].duplicate
                  /\ stored[k].phase_set = i
                  /\ stored[k].genotype = called[k].genotype
                  /\ stored[k].haplotype = called[k].haplotype
      ]_vars

====
